---- MODULE Spec2Model ----
(***************************************************************************)
(* Network monitor: the windowed monitor (network-monitor-gtk.py) and the  *)
(* terminal monitor (network-monitor.py).                                  *)
(*                                                                         *)
(* Strings are sequences of tokens; a token is a run of characters that    *)
(* holds no ':', '[' or ']', and each of these three characters is a token *)
(* of its own.  "93.184.216.34:443" is <<"93.184.216.34", ":", "443">>.    *)
(***************************************************************************)
EXTENDS Integers, Sequences, FiniteSets, Bags, TLC

VARIABLES
    prev_io,              \* self.prev_io: pid -> [rx, tx] of the last cycle
    sort_column,          \* self.sort_column
    sort_ascending,       \* self.sort_ascending
    resolve_hosts,        \* self.resolve_hosts
    resolution_cache,     \* self.resolution_cache: endpoint -> display string
    resolution_pending,   \* self.resolution_pending: set of IP components
    resolution_semaphore, \* permits left in self.resolution_semaphore
    threads,              \* bag of live async_resolve_host threads
    idle_sources,         \* bag of GLib idle callbacks not yet dispatched
    timeouts,             \* GLib timeouts holding update_connections
    grid_rows,            \* rows attached to the grid by the last cycle
    connections,          \* `connections` of the last update_connections,
                          \* with the rates attached to each
    io_reads,             \* what get_process_io returned for each of them
    last_step,            \* history: the handler or thread step taken last
    term_prev_io,         \* prev_io of the terminal monitor's main()
    term_rows             \* rows printed by the terminal monitor's last cycle

gtk_vars == <<prev_io, sort_column, sort_ascending, resolve_hosts,
              resolution_cache, resolution_pending, resolution_semaphore,
              threads, idle_sources, timeouts, grid_rows, connections,
              io_reads, last_step>>
term_vars == <<term_prev_io, term_rows>>
vars == <<gtk_vars, term_vars>>

(***************************************************************************)
(* Bounds of the model.                                                    *)
(***************************************************************************)
MaxCounter == 1      \* I/O counters read from /proc/<pid>/io range over 0..MaxCounter
MaxConns == 2        \* connections listed by one `ss` run
NumHosts == 1        \* distinct remote hosts of the main specification
BurstHosts == 6      \* distinct remote hosts of the burst specification
MaxTimeouts == 3     \* outstanding GLib timeouts
MaxThreads == 3      \* live lookup threads when resolution is toggled

(***************************************************************************)
(* Program constants.                                                      *)
(***************************************************************************)
NumColumns == 8      \* the headers of create_tree_view
SemaphoreInit == 5   \* threading.Semaphore(5)

(***************************************************************************)
(* String operations on token sequences.                                   *)
(***************************************************************************)
Colon == ":"

startswith(s, prefix) ==
    /\ Len(s) >= Len(prefix)
    /\ SubSeq(s, 1, Len(prefix)) = prefix

endswith(s, suffix) ==
    /\ Len(s) >= Len(suffix)
    /\ SubSeq(s, Len(s) - Len(suffix) + 1, Len(s)) = suffix

\* Index of the first / last ':' of s, 0 when s holds none.
FirstColon(s) ==
    IF \E i \in 1..Len(s) : s[i] = Colon
    THEN CHOOSE i \in 1..Len(s) : s[i] = Colon /\ \A j \in 1..(i-1) : s[j] # Colon
    ELSE 0

LastColon(s) ==
    IF \E i \in 1..Len(s) : s[i] = Colon
    THEN CHOOSE i \in 1..Len(s) : s[i] = Colon /\ \A j \in (i+1)..Len(s) : s[j] # Colon
    ELSE 0

\* s.rsplit(':', 1)[0] and s.rsplit(':', 1)[1], for s holding a ':'
rsplit_head(s) == SubSeq(s, 1, LastColon(s) - 1)
rsplit_tail(s) == SubSeq(s, LastColon(s) + 1, Len(s))

\* s.split(':')[0]
split_first(s) ==
    IF FirstColon(s) = 0 THEN s ELSE SubSeq(s, 1, FirstColon(s) - 1)

\* The IP component resolve_address extracts from an endpoint holding a ':'
ip_part_of(addr) ==
    LET ip == rsplit_head(addr)
    IN  IF startswith(ip, <<"[">>) /\ endswith(ip, <<"]">>)
        THEN SubSeq(ip, 2, Len(ip) - 1)
        ELSE ip

ANY == <<"ANY">>
LOCALHOST == <<"LOCALHOST">>
MDNS == <<"MDNS">>
NA == "N/A"

\* The three branches of resolve_address that need no lookup; <<>> for none.
special_name(addr) ==
    IF \/ addr = <<"0.0.0.0", ":", "*">>
       \/ addr = <<"*", ":", "*">>
       \/ addr = <<"[", ":", ":", "]", ":", "*">>
    THEN ANY
    ELSE IF \/ startswith(addr, <<"127.0.0.1", ":">>)
            \/ startswith(addr, <<"[", ":", ":", "1", "]", ":">>)
    THEN LOCALHOST
    ELSE IF startswith(addr, <<"224.0.0.251", ":">>)
    THEN MDNS
    ELSE <<>>

(***************************************************************************)
(* The windowed monitor: NetworkMonitorWindow.                             *)
(***************************************************************************)

\* The window object: one field per variable.
Self ==
    [prev_io |-> prev_io, sort_column |-> sort_column,
     sort_ascending |-> sort_ascending, resolve_hosts |-> resolve_hosts,
     resolution_cache |-> resolution_cache,
     resolution_pending |-> resolution_pending,
     resolution_semaphore |-> resolution_semaphore,
     threads |-> threads, idle_sources |-> idle_sources,
     timeouts |-> timeouts, grid_rows |-> grid_rows,
     connections |-> connections, io_reads |-> io_reads]

\* The window object after the handler `step` has run.
Becomes(self, step) ==
    /\ last_step' = step
    /\ connections' = self.connections
    /\ io_reads' = self.io_reads
    /\ prev_io' = self.prev_io
    /\ sort_column' = self.sort_column
    /\ sort_ascending' = self.sort_ascending
    /\ resolve_hosts' = self.resolve_hosts
    /\ resolution_cache' = self.resolution_cache
    /\ resolution_pending' = self.resolution_pending
    /\ resolution_semaphore' = self.resolution_semaphore
    /\ threads' = self.threads
    /\ idle_sources' = self.idle_sources
    /\ timeouts' = self.timeouts
    /\ grid_rows' = self.grid_rows

\* A lookup that resolve_address runs past the semaphore itself
NewThread_past_semaphore(ip_part, full_addr) ==
    [ip_part |-> ip_part, full_addr |-> full_addr, pc |-> "gethostbyaddr"]

\* threading.Thread(target=self.async_resolve_host, args=(ip_part, addr)),
\* started: the thread stands before the semaphore.
NewThread(ip_part, full_addr) ==
    [ip_part |-> ip_part, full_addr |-> full_addr, pc |-> "acquire"]

\* resolve_address starting a thread whether or not the IP is pending
resolve_address_unguarded(self, addr) ==
    LET Start(ip_part) ==
            [ret |-> addr,
             self |-> [self EXCEPT
                 !.resolution_pending = @ \cup {ip_part},
                 !.threads = @ (+) SetToBag({NewThread(ip_part, addr)})]]
        Named(special) ==
            IF special # <<>>
            THEN [ret |-> special, self |-> self]
            ELSE IF ~self.resolve_hosts
            THEN [ret |-> addr, self |-> self]
            ELSE IF addr \in DOMAIN self.resolution_cache
            THEN [ret |-> self.resolution_cache[addr], self |-> self]
            ELSE IF LastColon(addr) # 0
            THEN Start(ip_part_of(addr))
            ELSE [ret |-> addr, self |-> self]
    IN  Named(special_name(addr))

\* resolve_address looking into the cache before it tests resolve_hosts
resolve_address_cache_first(self, addr) ==
    LET Start(ip_part) ==
            IF ip_part \notin self.resolution_pending
            THEN [ret |-> addr,
                  self |-> [self EXCEPT
                      !.resolution_pending = @ \cup {ip_part},
                      !.threads = @ (+) SetToBag({NewThread(ip_part, addr)})]]
            ELSE [ret |-> addr, self |-> self]
        Named(special) ==
            IF special # <<>>
            THEN [ret |-> special, self |-> self]
            ELSE IF addr \in DOMAIN self.resolution_cache
            THEN [ret |-> self.resolution_cache[addr], self |-> self]
            ELSE IF ~self.resolve_hosts
            THEN [ret |-> addr, self |-> self]
            ELSE IF LastColon(addr) # 0
            THEN Start(ip_part_of(addr))
            ELSE [ret |-> addr, self |-> self]
    IN  Named(special_name(addr))

\* resolve_address testing resolve_hosts before the special endpoints
resolve_address_switch_first(self, addr) ==
    LET Start(ip_part) ==
            IF ip_part \notin self.resolution_pending
            THEN [ret |-> addr,
                  self |-> [self EXCEPT
                      !.resolution_pending = @ \cup {ip_part},
                      !.threads = @ (+) SetToBag({NewThread(ip_part, addr)})]]
            ELSE [ret |-> addr, self |-> self]
        Named(special) ==
            IF ~self.resolve_hosts
            THEN [ret |-> addr, self |-> self]
            ELSE IF special # <<>>
            THEN [ret |-> special, self |-> self]
            ELSE IF addr \in DOMAIN self.resolution_cache
            THEN [ret |-> self.resolution_cache[addr], self |-> self]
            ELSE IF LastColon(addr) # 0
            THEN Start(ip_part_of(addr))
            ELSE [ret |-> addr, self |-> self]
    IN  Named(special_name(addr))

\* resolve_address: the string returned and the window object afterwards.
resolve_address(self, addr) ==
    LET Start(ip_part) ==
            IF ip_part \notin self.resolution_pending
            THEN [ret |-> addr,
                  self |-> [self EXCEPT
                      !.resolution_pending = @ \cup {ip_part},
                      !.threads = @ (+) SetToBag({NewThread(ip_part, addr)})]]
            ELSE [ret |-> addr, self |-> self]
        Named(special) ==
            IF special # <<>>
            THEN [ret |-> special, self |-> self]
            ELSE IF ~self.resolve_hosts
            THEN [ret |-> addr, self |-> self]
            ELSE IF addr \in DOMAIN self.resolution_cache
            THEN [ret |-> self.resolution_cache[addr], self |-> self]
            ELSE IF LastColon(addr) # 0
            THEN Start(ip_part_of(addr))
            ELSE [ret |-> addr, self |-> self]
    IN  Named(special_name(addr))

\* get_process_io: what one read of /proc/<pid>/io can return; (0, 0) is also
\* the result of a failed read.
get_process_io ==
    [rx : 0..MaxCounter, tx : 0..MaxCounter]

Max(a, b) == IF a >= b THEN a ELSE b

\* rate_of with the bare differences of the counters
rate_of_unclamped(self, conn, io) ==
    IF conn.pid # NA
    THEN IF conn.pid \in DOMAIN self.prev_io
         THEN [rx_rate |-> io.rx - self.prev_io[conn.pid].rx,
               tx_rate |-> io.tx - self.prev_io[conn.pid].tx]
         ELSE [rx_rate |-> 0, tx_rate |-> 0]
    ELSE [rx_rate |-> 0, tx_rate |-> 0]

\* Lines 421-441 for the i-th connection: the rates attached to it, given the
\* counters io_reads[i] read for it.
rate_of(self, conn, io) ==
    IF conn.pid # NA
    THEN IF conn.pid \in DOMAIN self.prev_io
         THEN [rx_rate |-> Max(0, io.rx - self.prev_io[conn.pid].rx),
               tx_rate |-> Max(0, io.tx - self.prev_io[conn.pid].tx)]
         ELSE [rx_rate |-> 0, tx_rate |-> 0]
    ELSE [rx_rate |-> 0, tx_rate |-> 0]

\* current_io at the end of the loop of lines 423-441: the last counters read
\* for each pid that owns a listed connection.
current_io_of(listed, reads) ==
    LET pids == {listed[i].pid : i \in 1..Len(listed)} \ {NA}
        last(pid) == CHOOSE i \in 1..Len(listed) :
                        /\ listed[i].pid = pid
                        /\ \A j \in (i+1)..Len(listed) : listed[j].pid # pid
    IN  [pid \in pids |-> reads[last(pid)]]

(***************************************************************************)
(* Display rows and their order.                                           *)
(***************************************************************************)

\* Tokens in the order Python's string comparison gives their lower-case
\* forms (code points: ( ) * . / 0-9 : [ ] a-z).
TokenOrder ==
    <<"(", ")", "*", "0.0.0.0", "1", "10.0.0.1", "10.0.0.2", "10.0.0.3",
      "10.0.0.4", "10.0.0.5", "10.0.0.6", "10.0.0.7", "10.0.0.8", "10.0.0.9",
      "100", "101", "102", "127.0.0.1", "224.0.0.251", "443", "5353", "80",
      ":", "[", "]", "any", "cmdline", "curl", "estab", "localhost", "mdns",
      "n/a", "ptr", "sshd", "tcp", "udp", "unconn">>

\* str.lower() of one token
lower_token(t) ==
    CASE t = "ANY" -> "any"
      [] t = "LOCALHOST" -> "localhost"
      [] t = "MDNS" -> "mdns"
      [] t = "N/A" -> "n/a"
      [] t = "ESTAB" -> "estab"
      [] t = "UNCONN" -> "unconn"
      [] OTHER -> t

lower(s) == [i \in 1..Len(s) |-> lower_token(s[i])]

TokenRank(t) == CHOOSE i \in 1..Len(TokenOrder) : TokenOrder[i] = t

\* a < b for two strings
RECURSIVE StrLess(_, _)
StrLess(a, b) ==
    IF b = <<>> THEN FALSE
    ELSE IF a = <<>> THEN TRUE
    ELSE IF Head(a) = Head(b) THEN StrLess(Tail(a), Tail(b))
    ELSE TokenRank(Head(a)) < TokenRank(Head(b))

\* get_process_path: the command line read from /proc/<pid>/cmdline
get_process_path(pid) == <<"cmdline", "(", pid, ")">>

\* get_row_data: the row of one connection (the resolved endpoints before
\* their truncation for display) and the window object after the two
\* resolve_address calls.
get_row_data(self, conn) ==
    LET Row(local, remote) ==
            [row |-> [conn |-> conn,
                      prog_pid |-> IF conn.pid # NA
                                   THEN <<conn.program, "(", conn.pid, ")">>
                                   ELSE <<conn.program>>,
                      local_resolved |-> local.ret,
                      remote_resolved |-> remote.ret,
                      process_path |-> IF conn.pid # NA
                                       THEN get_process_path(conn.pid)
                                       ELSE <<"N/A">>],
             self |-> remote.self]
        Remote(local) == Row(local, resolve_address(local.self, conn.remote))
    IN  Remote(resolve_address(self, conn.local))

\* get_row_data over a list of connections, in order.
RECURSIVE get_rows(_, _)
get_rows(self, conns) ==
    IF conns = <<>>
    THEN [rows |-> <<>>, self |-> self]
    ELSE LET Join(first, rest) ==
                 [rows |-> <<first.row>> \o rest.rows, self |-> rest.self]
             Rest(first) == Join(first, get_rows(first.self, Tail(conns)))
         IN  Rest(get_row_data(self, Head(conns)))

\* get_sort_key of a connection whose row is `row`
get_sort_key(column, row) ==
    CASE column = 5 -> row.conn.tx_rate
      [] column = 6 -> row.conn.rx_rate
      [] column = 0 -> lower(row.prog_pid)
      [] column = 1 -> lower(<<row.conn.protocol>>)
      [] column = 2 -> lower(row.local_resolved)
      [] column = 3 -> lower(row.remote_resolved)
      [] column = 4 -> lower(<<row.conn.state>>)
      [] column = 7 -> lower(row.process_path)
      [] OTHER -> <<>>

KeyLess(column, a, b) ==
    IF column \in {5, 6} THEN a < b ELSE StrLess(a, b)

\* x goes before y in the sorted list
Precedes(column, ascending, x, y) ==
    LET Less(kx, ky) == IF ascending
                        THEN KeyLess(column, kx, ky)
                        ELSE KeyLess(column, ky, kx)
    IN  Less(get_sort_key(column, x), get_sort_key(column, y))

\* x inserted into a sorted list behind every row it does not precede
RECURSIVE Insert(_, _, _, _)
Insert(column, ascending, x, list) ==
    IF list = <<>> THEN <<x>>
    ELSE IF Precedes(column, ascending, x, Head(list))
    THEN <<x>> \o list
    ELSE <<Head(list)>> \o Insert(column, ascending, x, Tail(list))

\* A descending sort made by reversing the ascending one
RECURSIVE sorted_by_reversal(_, _, _)
sorted_by_reversal(column, ascending, rows) ==
    LET Reversed(s) == [i \in 1..Len(s) |-> s[Len(s) + 1 - i]]
    IN  IF rows = <<>> THEN <<>>
        ELSE IF ascending
        THEN Insert(column, TRUE, rows[Len(rows)],
                    sorted_by_reversal(column, TRUE,
                                       SubSeq(rows, 1, Len(rows) - 1)))
        ELSE Reversed(sorted_by_reversal(column, TRUE, rows))

\* sorted(rows, key=get_sort_key, reverse=not ascending): a stable sort
RECURSIVE sorted(_, _, _)
sorted(column, ascending, rows) ==
    IF rows = <<>> THEN <<>>
    ELSE Insert(column, ascending, rows[Len(rows)],
                sorted(column, ascending, SubSeq(rows, 1, Len(rows) - 1)))

(***************************************************************************)
(* update_connections and the handlers of the main loop.                   *)
(***************************************************************************)

\* The filter comparing the resolved remote endpoint with "localhost"
RECURSIVE filter_connections_lower_case(_, _)
filter_connections_lower_case(self, conns) ==
    IF conns = <<>>
    THEN [conns |-> <<>>, self |-> self]
    ELSE LET Keep(first, rest) ==
                 [conns |-> IF first.ret # <<"localhost">>
                            THEN <<Head(conns)>> \o rest.conns
                            ELSE rest.conns,
                  self |-> rest.self]
             Rest(first) ==
                 Keep(first, filter_connections_lower_case(first.self,
                                                           Tail(conns)))
         IN  Rest(resolve_address(self, Head(conns).remote))

\* Lines 446-450: the connections whose remote endpoint does not resolve to
\* LOCALHOST, resolve_address being called on every remote endpoint in order.
RECURSIVE filter_connections(_, _)
filter_connections(self, conns) ==
    IF conns = <<>>
    THEN [conns |-> <<>>, self |-> self]
    ELSE LET Keep(first, rest) ==
                 [conns |-> IF first.ret # LOCALHOST
                            THEN <<Head(conns)>> \o rest.conns
                            ELSE rest.conns,
                  self |-> rest.self]
             Rest(first) ==
                 Keep(first, filter_connections(first.self, Tail(conns)))
         IN  Rest(resolve_address(self, Head(conns).remote))

\* sort_connections: the connections in display order; the key of a column
\* other than TX and RX is taken from get_row_data, which resolves.
sort_connections(self, conns) ==
    LET Conns(order) == [i \in 1..Len(order) |-> order[i].conn]
        Sorted(keyed) ==
            [conns |-> Conns(sorted(self.sort_column, self.sort_ascending,
                                    keyed.rows)),
             self |-> keyed.self]
    IN  IF conns = <<>>
        THEN [conns |-> conns, self |-> self]
        ELSE IF self.sort_column \in {5, 6}
        THEN Sorted([rows |-> [i \in 1..Len(conns) |-> [conn |-> conns[i]]],
                     self |-> self])
        ELSE Sorted(get_rows(self, conns))

\* update_connections returning at once when nothing is listed
update_connections_returns_on_empty(self, listed, reads) ==
    LET Attach(rated, shown) ==
            [shown.self EXCEPT !.grid_rows = shown.rows,
                               !.connections = rated,
                               !.io_reads = reads,
                               !.timeouts = @ + 1]
        Show(ordered) == get_rows(ordered.self, ordered.conns)
        Order(filtered) == sort_connections(filtered.self, filtered.conns)
        Sample(rated) ==
            Attach(rated, Show(Order(filter_connections(
                [self EXCEPT !.prev_io = current_io_of(listed, reads)],
                rated))))
    IN  IF listed = <<>>
        THEN [self EXCEPT !.connections = <<>>, !.io_reads = <<>>]
        ELSE Sample([i \in 1..Len(listed) |->
                       listed[i] @@ rate_of(self, listed[i], reads[i])])

\* update_connections, given the connections get_connections returns and the
\* counters get_process_io returns for each of them.
update_connections(self, listed, reads) ==
    LET Attach(rated, shown) ==
            [shown.self EXCEPT !.grid_rows = shown.rows,
                               !.connections = rated,
                               !.io_reads = reads,
                               !.timeouts = @ + 1]
        Show(ordered) == get_rows(ordered.self, ordered.conns)
        Order(filtered) == sort_connections(filtered.self, filtered.conns)
        Sample(rated) ==
            Attach(rated, Show(Order(filter_connections(
                [self EXCEPT !.prev_io = current_io_of(listed, reads)],
                rated))))
    IN  Sample([i \in 1..Len(listed) |->
                  listed[i] @@ rate_of(self, listed[i], reads[i])])

\* update_resolution_cache, dispatched from the idle queue
update_resolution_cache(self, addr, resolved, listed, reads) ==
    LET cached == [self EXCEPT
                     !.resolution_cache = (addr :> resolved) @@ @,
                     !.resolution_pending =
                         IF addr \in @ THEN @ \ {split_first(addr)} ELSE @]
    IN  update_connections(cached, listed, reads)

\* delayed_refresh running its cycle on the retained map as it is
delayed_refresh_keeps_prev_io(self, listed, reads) ==
    update_connections(self, listed, reads)

\* delayed_refresh, dispatched from the idle queue
delayed_refresh(self, listed, reads) ==
    update_connections([self EXCEPT !.prev_io = <<>>], listed, reads)

\* on_resolve_toggled clearing the cache and leaving the pending set
on_resolve_toggled_keeps_pending(self, active) ==
    LET set == [self EXCEPT !.resolve_hosts = active]
        cleared == IF ~set.resolve_hosts
                   THEN [set EXCEPT !.resolution_cache = <<>>]
                   ELSE set
    IN  [cleared EXCEPT !.idle_sources =
            @ (+) SetToBag({[fn |-> "delayed_refresh", addr |-> <<>>,
                             resolved |-> <<>>]})]

\* on_resolve_toggled: the toggle button has changed to `active`
on_resolve_toggled(self, active) ==
    LET set == [self EXCEPT !.resolve_hosts = active]
        cleared == IF ~set.resolve_hosts
                   THEN [set EXCEPT !.resolution_cache = <<>>,
                                    !.resolution_pending = {}]
                   ELSE set
    IN  [cleared EXCEPT !.idle_sources =
            @ (+) SetToBag({[fn |-> "delayed_refresh", addr |-> <<>>,
                             resolved |-> <<>>]})]

\* A click on another column that keeps the direction
on_header_clicked_keeps_direction(self, column_index, listed, reads) ==
    update_connections(
        IF self.sort_column = column_index
        THEN [self EXCEPT !.sort_ascending = ~@]
        ELSE [self EXCEPT !.sort_column = column_index],
        listed, reads)

\* on_header_clicked: the header button of column_index has been clicked
on_header_clicked(self, column_index, listed, reads) ==
    update_connections(
        IF self.sort_column = column_index
        THEN [self EXCEPT !.sort_ascending = ~@]
        ELSE [self EXCEPT !.sort_column = column_index,
                          !.sort_ascending = TRUE],
        listed, reads)

\* NetworkMonitorApp.on_refresh, the window existing
on_refresh(self, listed, reads) ==
    update_connections([self EXCEPT !.prev_io = <<>>], listed, reads)

(***************************************************************************)
(* What `ss` lists and what /proc/<pid>/io holds.                          *)
(***************************************************************************)
HostTable ==
    <<"10.0.0.1", "10.0.0.2", "10.0.0.3", "10.0.0.4", "10.0.0.5",
      "10.0.0.6", "10.0.0.7", "10.0.0.8", "10.0.0.9">>

Endpoint(host, port) == <<HostTable[host], ":", port>>

AnyAddr == <<"0.0.0.0", ":", "*">>
MdnsAddr == <<"224.0.0.251", ":", "5353">>
LoopbackAddr == <<"127.0.0.1", ":", "80">>

Conn(pid, program, local, remote) ==
    [protocol |-> "tcp", state |-> "ESTAB", local |-> local,
     remote |-> remote, program |-> program, pid |-> pid]

\* The lists get_connections can return: up to MaxConns distinct sockets out
\* of `sockets`, in any order.
ConnLists(sockets) ==
    UNION {{c \in [1..n -> sockets] :
              \A i, j \in 1..n : i # j => c[i] # c[j]} : n \in 0..MaxConns}

\* The counters read for each listed connection (none for a socket without
\* a pid).
IoReads(listed) ==
    {r \in [1..Len(listed) -> get_process_io] :
        \A i \in 1..Len(listed) :
            listed[i].pid = NA => r[i] = [rx |-> 0, tx |-> 0]}

(***************************************************************************)
(* The main loop of the windowed monitor.  Every handler runs to its end   *)
(* before the next one starts; `listings` holds the lists that              *)
(* get_connections can return.                                             *)
(***************************************************************************)

\* NetworkMonitorWindow.__init__ ends with start_monitoring
start_monitoring(listings) ==
    /\ timeouts = 0
    /\ \E listed \in listings :
         \E reads \in IoReads(listed) :
            Becomes(update_connections(Self, listed, reads),
                    "start_monitoring")
    /\ UNCHANGED term_vars

\* A GLib timeout fires: update_connections runs and is not repeated (it
\* returns None), having scheduled the next timeout itself.
TimeoutFires(listings) ==
    /\ timeouts >= 1
    /\ \E listed \in listings :
         \E reads \in IoReads(listed) :
            Becomes(update_connections([Self EXCEPT !.timeouts = @ - 1],
                                       listed, reads), "timeout")
    /\ UNCHANGED term_vars

\* The user clicks the toggle button.
ResolveToggled ==
    /\ timeouts >= 1
    /\ BagCardinality(threads) + BagCardinality(idle_sources) < MaxThreads
    /\ Becomes(on_resolve_toggled(Self, ~resolve_hosts), "on_resolve_toggled")
    /\ UNCHANGED term_vars

\* The main loop dispatches an idle callback.  GLib dispatches idle sources
\* in the order they were added, between timeouts and input events; the model
\* lets the loop take any of them.  Neither callback returns True, so the
\* source is removed.
DispatchResolution(listings) ==
    /\ timeouts < MaxTimeouts
    /\ \E cb \in BagToSet(idle_sources) :
         /\ cb.fn = "update_resolution_cache"
         /\ \E listed \in listings :
              \E reads \in IoReads(listed) :
                 Becomes(update_resolution_cache(
                     [Self EXCEPT !.idle_sources = @ (-) SetToBag({cb})],
                     cb.addr, cb.resolved, listed, reads),
                     "update_resolution_cache")
    /\ UNCHANGED term_vars

DispatchRefresh(listings) ==
    /\ timeouts < MaxTimeouts
    /\ \E cb \in BagToSet(idle_sources) :
         /\ cb.fn = "delayed_refresh"
         /\ \E listed \in listings :
              \E reads \in IoReads(listed) :
                 Becomes(delayed_refresh(
                     [Self EXCEPT !.idle_sources = @ (-) SetToBag({cb})],
                     listed, reads), "delayed_refresh")
    /\ UNCHANGED term_vars

\* The user clicks one of the header buttons of create_tree_view.
HeaderClicked(listings) ==
    /\ timeouts >= 1
    /\ timeouts < MaxTimeouts
    /\ \E column_index \in 0..(NumColumns - 1) :
         \E listed \in listings :
            \E reads \in IoReads(listed) :
               Becomes(on_header_clicked(Self, column_index, listed, reads),
                       "on_header_clicked")
    /\ UNCHANGED term_vars

\* The user picks Refresh in the menu.
Refresh(listings) ==
    /\ timeouts >= 1
    /\ timeouts < MaxTimeouts
    /\ \E listed \in listings :
         \E reads \in IoReads(listed) :
            Becomes(on_refresh(Self, listed, reads), "on_refresh")
    /\ UNCHANGED term_vars

(***************************************************************************)
(* async_resolve_host, one action per step of a thread.                    *)
(***************************************************************************)
InGate == {"gethostbyaddr", "release"}

ThreadSteps(t, next) ==
    threads' = (threads (-) SetToBag({t})) (+) SetToBag({next})

\* A semaphore that lets a thread in when no permit is left
SemaphoreAcquire_without_permit ==
    /\ \E t \in BagToSet(threads) :
         /\ t.pc = "acquire"
         /\ resolution_semaphore' = resolution_semaphore - 1
         /\ ThreadSteps(t, [t EXCEPT !.pc = "gethostbyaddr"])
    /\ last_step' = "SemaphoreAcquire"
    /\ UNCHANGED <<prev_io, sort_column, sort_ascending, resolve_hosts,
                   resolution_cache, resolution_pending, idle_sources,
                   timeouts, grid_rows, connections, io_reads, term_vars>>

\* `with self.resolution_semaphore:` enters when a permit is left
SemaphoreAcquire ==
    /\ \E t \in BagToSet(threads) :
         /\ t.pc = "acquire"
         /\ resolution_semaphore > 0
         /\ resolution_semaphore' = resolution_semaphore - 1
         /\ ThreadSteps(t, [t EXCEPT !.pc = "gethostbyaddr"])
    /\ last_step' = "SemaphoreAcquire"
    /\ UNCHANGED <<prev_io, sort_column, sort_ascending, resolve_hosts,
                   resolution_cache, resolution_pending, idle_sources,
                   timeouts, grid_rows, connections, io_reads, term_vars>>

\* The names socket.gethostbyaddr may return for an address: the first
\* NumHosts hosts have a PTR record, the lookup of any other address raises.
gethostbyaddr(ip_part) ==
    IF ip_part \in {<<HostTable[h]>> : h \in 1..NumHosts}
    THEN {<<"ptr">> \o ip_part}
    ELSE {}

\* Lines 356-360: what `resolved` can be once the lookup has returned a name
\* or raised
resolved_values(ip_part, full_addr) ==
    {hostname \o <<Colon>> \o rsplit_tail(full_addr) :
        hostname \in gethostbyaddr(ip_part)}
    \cup {full_addr}

\* Lines 356-363: the blocking lookup returns or raises, and the thread
\* hands update_resolution_cache to the main loop with GLib.idle_add
LookupReturns ==
    /\ \E t \in BagToSet(threads) :
         /\ t.pc = "gethostbyaddr"
         /\ \E resolved \in resolved_values(t.ip_part, t.full_addr) :
              /\ idle_sources' = idle_sources (+) SetToBag(
                     {[fn |-> "update_resolution_cache", addr |-> t.full_addr,
                       resolved |-> resolved]})
              /\ ThreadSteps(t, [t EXCEPT !.pc = "release"])
    /\ last_step' = "LookupReturns"
    /\ UNCHANGED <<prev_io, sort_column, sort_ascending, resolve_hosts,
                   resolution_cache, resolution_pending, resolution_semaphore,
                   timeouts, grid_rows, connections, io_reads, term_vars>>

\* A thread that ends without giving its permit back
SemaphoreRelease_keeps_permit ==
    /\ \E t \in BagToSet(threads) :
         /\ t.pc = "release"
         /\ resolution_semaphore' = resolution_semaphore
         /\ threads' = threads (-) SetToBag({t})
    /\ last_step' = "SemaphoreRelease"
    /\ UNCHANGED <<prev_io, sort_column, sort_ascending, resolve_hosts,
                   resolution_cache, resolution_pending, idle_sources,
                   timeouts, grid_rows, connections, io_reads, term_vars>>

\* The `with` block is left: the permit is given back and the thread ends
SemaphoreRelease ==
    /\ \E t \in BagToSet(threads) :
         /\ t.pc = "release"
         /\ resolution_semaphore' = resolution_semaphore + 1
         /\ threads' = threads (-) SetToBag({t})
    /\ last_step' = "SemaphoreRelease"
    /\ UNCHANGED <<prev_io, sort_column, sort_ascending, resolve_hosts,
                   resolution_cache, resolution_pending, idle_sources,
                   timeouts, grid_rows, connections, io_reads, term_vars>>

\* NetworkMonitorWindow.__init__, lines 31-39, before start_monitoring
InitWindow ==
    /\ prev_io = <<>>
    /\ sort_column = 0
    /\ sort_ascending = TRUE
    /\ resolve_hosts = TRUE
    /\ resolution_cache = <<>>
    /\ resolution_pending = {}
    /\ resolution_semaphore = SemaphoreInit
    /\ threads = EmptyBag
    /\ idle_sources = EmptyBag
    /\ timeouts = 0
    /\ grid_rows = <<>>
    /\ connections = <<>>
    /\ io_reads = <<>>
    /\ last_step = "__init__"

\* main() of the terminal monitor, line 180
InitTerminal ==
    /\ term_prev_io = <<>>
    /\ term_rows = <<>>

Init == InitWindow /\ InitTerminal

(***************************************************************************)
(* The windowed monitor resolving the remote hosts of a few sockets that   *)
(* no process is known to own.                                             *)
(***************************************************************************)
Sockets ==
    {Conn(NA, NA, AnyAddr, Endpoint(h, port)) :
        h \in 1..NumHosts, port \in {"443"}}
    \cup {Conn(NA, NA, AnyAddr, Endpoint(1, "80"))}

Next ==
    \/ start_monitoring(ConnLists(Sockets))
    \/ TimeoutFires(ConnLists(Sockets))
    \/ ResolveToggled
    \/ DispatchResolution(ConnLists(Sockets))
    \/ DispatchRefresh(ConnLists(Sockets))
    \/ Refresh(ConnLists(Sockets))
    \/ SemaphoreAcquire
    \/ LookupReturns
    \/ SemaphoreRelease

Spec == Init /\ [][Next]_vars

(***************************************************************************)
(* The windowed monitor sampling the counters of the processes that own a  *)
(* few sockets whose endpoints need no lookup.                             *)
(***************************************************************************)
StarAddr == <<"*", ":", "*">>

RateSockets ==
    {Conn("100", "curl", MdnsAddr, AnyAddr),
     Conn("100", "curl", LoopbackAddr, LoopbackAddr),
     Conn("101", "sshd", MdnsAddr, AnyAddr),
     Conn(NA, NA, MdnsAddr, StarAddr)}

NextRates ==
    \/ start_monitoring(ConnLists(RateSockets))
    \/ TimeoutFires(ConnLists(RateSockets))

SpecRates == Init /\ [][NextRates]_vars

(***************************************************************************)
(* The windowed monitor with resolution left enabled, when two of the      *)
(* listed connections go to different ports of one host.  Threads run,     *)
(* lookups return, and the main loop dispatches its timeouts and idle      *)
(* callbacks.                                                              *)
(***************************************************************************)
SharedSockets ==
    {Conn(NA, NA, AnyAddr, Endpoint(1, "443")),
     Conn(NA, NA, AnyAddr, Endpoint(1, "80")),
     Conn(NA, NA, AnyAddr, Endpoint(2, "443"))}

NextShared ==
    \/ start_monitoring(ConnLists(SharedSockets))
    \/ TimeoutFires(ConnLists(SharedSockets))
    \/ DispatchResolution(ConnLists(SharedSockets))
    \/ SemaphoreAcquire
    \/ LookupReturns
    \/ SemaphoreRelease

SpecShared ==
    /\ Init
    /\ [][NextShared]_vars
    /\ WF_vars(SemaphoreAcquire)
    /\ WF_vars(LookupReturns)
    /\ WF_vars(SemaphoreRelease)

(***************************************************************************)
(* The windowed monitor resolving the remote hosts of two sockets while    *)
(* the user sorts the grid by clicking the headers.                        *)
(***************************************************************************)
ResolveSortSockets ==
    {Conn(NA, NA, AnyAddr, Endpoint(1, "443")),
     Conn(NA, NA, AnyAddr, Endpoint(2, "443"))}

NextResolveSort ==
    \/ start_monitoring(ConnLists(ResolveSortSockets))
    \/ TimeoutFires(ConnLists(ResolveSortSockets))
    \/ HeaderClicked(ConnLists(ResolveSortSockets))
    \/ DispatchResolution(ConnLists(ResolveSortSockets))
    \/ SemaphoreAcquire
    \/ LookupReturns
    \/ SemaphoreRelease

SpecResolveSort == Init /\ [][NextResolveSort]_vars

(***************************************************************************)
(* The windowed monitor sampling the counters of a process while the user  *)
(* toggles the resolution and picks Refresh.                               *)
(***************************************************************************)
RefreshSockets ==
    {Conn("100", "curl", MdnsAddr, AnyAddr),
     Conn(NA, NA, MdnsAddr, StarAddr)}

NextRefresh ==
    \/ start_monitoring(ConnLists(RefreshSockets))
    \/ TimeoutFires(ConnLists(RefreshSockets))
    \/ ResolveToggled
    \/ DispatchRefresh(ConnLists(RefreshSockets))
    \/ Refresh(ConnLists(RefreshSockets))

SpecRefresh == Init /\ [][NextRefresh]_vars

(***************************************************************************)
(* The terminal monitor: main() of network-monitor.py.                     *)
(***************************************************************************)

\* resolve_address of the terminal monitor
term_resolve_address(addr) ==
    IF special_name(addr) # <<>> THEN special_name(addr) ELSE addr

\* Lines 203-222: the loop over the connections; prev_io is updated as the
\* loop goes, and a connection to the local host is skipped before any read.
RECURSIVE term_rows_of(_, _, _)
term_rows_of(prev, listed, reads) ==
    IF listed = <<>>
    THEN [prev_io |-> prev, rows |-> <<>>]
    ELSE LET conn == Head(listed)
             io == Head(reads)
         IN  IF term_resolve_address(conn.remote) = LOCALHOST
             THEN term_rows_of(prev, Tail(listed), Tail(reads))
             ELSE LET known == conn.pid # NA /\ conn.pid \in DOMAIN prev
                      row == [conn |-> conn,
                              rx_rate |-> IF known THEN io.rx - prev[conn.pid].rx
                                          ELSE 0,
                              tx_rate |-> IF known THEN io.tx - prev[conn.pid].tx
                                          ELSE 0,
                              local_resolved |-> term_resolve_address(conn.local),
                              remote_resolved |-> term_resolve_address(conn.remote)]
                      kept == IF conn.pid # NA
                              THEN (conn.pid :> io) @@ prev
                              ELSE prev
                      rest == term_rows_of(kept, Tail(listed), Tail(reads))
                  IN  [prev_io |-> rest.prev_io, rows |-> <<row>> \o rest.rows]

\* One turn of the `while True` loop of main(), lines 183-233
TerminalCycle(listings) ==
    /\ \E listed \in listings :
         \E reads \in IoReads(listed) :
            LET out == term_rows_of(term_prev_io, listed, reads)
            IN  /\ term_prev_io' = out.prev_io
                /\ term_rows' = out.rows
    /\ UNCHANGED gtk_vars

NextTerminal == TerminalCycle(ConnLists(RateSockets))

SpecTerminal == Init /\ [][NextTerminal]_vars

(***************************************************************************)
(* Both monitors when one process owns two of the listed connections.      *)
(***************************************************************************)
SamePidSockets ==
    {Conn("100", "curl", MdnsAddr, AnyAddr),
     Conn("100", "curl", MdnsAddr, StarAddr)}

\* `ss` lists both connections, in either order
SamePidListings == {listed \in ConnLists(SamePidSockets) : Len(listed) = 2}

NextSamePid ==
    \/ start_monitoring(SamePidListings)
    \/ TimeoutFires(SamePidListings)
    \/ TerminalCycle(SamePidListings)

SpecSamePid == Init /\ [][NextSamePid]_vars

(***************************************************************************)
(* The windowed monitor when `ss` lists BurstHosts connections to distinct *)
(* remote hosts at once.                                                   *)
(***************************************************************************)
BurstListing ==
    [h \in 1..BurstHosts |-> Conn(NA, NA, AnyAddr, Endpoint(h, "443"))]

NextBurst ==
    \/ start_monitoring({BurstListing})
    \/ TimeoutFires({BurstListing})
    \/ SemaphoreAcquire
    \/ LookupReturns
    \/ SemaphoreRelease

SpecBurst == Init /\ [][NextBurst]_vars

\* The same monitor when the threads are scheduled and every lookup returns
\* or raises.
SpecBurstFair ==
    /\ SpecBurst
    /\ WF_vars(SemaphoreAcquire)
    /\ WF_vars(LookupReturns)
    /\ WF_vars(SemaphoreRelease)

(***************************************************************************)
(* Properties of the sampling cycle.                                       *)
(***************************************************************************)

\* The steps that run update_connections on the retained map as it stands
TimerCycles == {"start_monitoring", "timeout"}

\* The process ids that own a connection of a list
PidsOf(conns) == {conns[i].pid : i \in 1..Len(conns)} \ {NA}

\* C1: in both monitors every rate attached to a connection of the last
\* cycle is zero or more, whatever the counters read.
C1_RatesNeverNegative ==
    /\ \A i \in 1..Len(connections) :
          connections[i].rx_rate >= 0 /\ connections[i].tx_rate >= 0
    /\ \A i \in 1..Len(term_rows) :
          term_rows[i].rx_rate >= 0 /\ term_rows[i].tx_rate >= 0

\* C2: a cycle of the windowed monitor attaches to every connection with a
\* known pid the clamped difference between the counters read for it and the
\* counters retained for its pid, and zero when no counters are retained for
\* the pid.
C2_RatesFromRetainedMap ==
    [][last_step' \in TimerCycles =>
        \A i \in 1..Len(connections') :
           LET conn == connections'[i]
               io == io_reads'[i]
           IN  conn.pid # NA =>
                 IF conn.pid \in DOMAIN prev_io
                 THEN /\ conn.rx_rate = Max(0, io.rx - prev_io[conn.pid].rx)
                      /\ conn.tx_rate = Max(0, io.tx - prev_io[conn.pid].tx)
                 ELSE conn.rx_rate = 0 /\ conn.tx_rate = 0]_vars

\* A cycle after the first has attached a rate of one to a connection whose
\* pid had retained counters, and a rate of zero to a connection of another
\* pid although the counter read for it is one.
C2_Witness ==
    /\ last_step = "timeout"
    /\ \E i, j \in 1..Len(connections) :
          /\ connections[i].pid # NA
          /\ connections[i].rx_rate = 1
          /\ connections[i].tx_rate = 0
          /\ io_reads[i].tx = 0
          /\ connections[j].pid \notin {NA, connections[i].pid}
          /\ io_reads[j].rx = 1
          /\ connections[j].rx_rate = 0

\* C3: after a cycle the retained map of either monitor holds exactly the
\* pids that own a connection sampled in that cycle.
C3_RetainedMapIsLastCycle ==
    /\ DOMAIN prev_io = PidsOf(connections)
    /\ DOMAIN term_prev_io = {term_rows[i].conn.pid : i \in 1..Len(term_rows)} \ {NA}

(***************************************************************************)
(* Properties of the admission gate.                                       *)
(***************************************************************************)

\* The threads of a bag that satisfy a test on their record
ThreadsWhere(bag, Test(_)) ==
    BagCardinality([t \in {u \in BagToSet(bag) : Test(u)} |-> bag[t]])

InsideGate(t) == t.pc \in InGate

AtSemaphore(t) == t.pc = "acquire"

\* C4: at most five threads are between acquiring and releasing the
\* semaphore, however many threads resolve_address has started.
C4_AtMostFiveInsideGate ==
    ThreadsWhere(threads, InsideGate) <= SemaphoreInit

\* Five threads are inside and a sixth waits for a permit.
C4_Witness ==
    /\ ThreadsWhere(threads, InsideGate) = SemaphoreInit
    /\ ThreadsWhere(threads, AtSemaphore) >= 1
    /\ resolution_semaphore = 0

\* C5: never more than five IPs are pending, and never more than five
\* threads are started and not yet ended.
C5_AtMostFivePending ==
    /\ Cardinality(resolution_pending) <= SemaphoreInit
    /\ BagCardinality(threads) <= SemaphoreInit

\* C6: a step in which update_connections runs is the whole cycle, every
\* listed connection attached to the grid and the next timeout scheduled; in
\* it no permit is taken, no thread moves, and the threads it starts are
\* left in front of the semaphore.
C6_CycleNeverWaits ==
    [][last_step' \in TimerCycles =>
        /\ Len(grid_rows') = BurstHosts
        /\ timeouts' >= 1
        /\ resolution_semaphore' = resolution_semaphore
        /\ threads \sqsubseteq threads'
        /\ ThreadsWhere(threads', InsideGate)
              = ThreadsWhere(threads, InsideGate)]_vars

\* A cycle has just run to its end while every permit is held by a thread
\* whose lookup has not returned and another thread waits for a permit.
C6_Witness ==
    /\ last_step = "timeout"
    /\ Len(grid_rows) = BurstHosts
    /\ resolution_semaphore = 0
    /\ \A t \in BagToSet(threads) : InsideGate(t) => t.pc = "gethostbyaddr"
    /\ ThreadsWhere(threads, AtSemaphore) >= 1

(***************************************************************************)
(* Properties of resolve_address and of the toggle.                        *)
(***************************************************************************)

\* The cycles whose calls of resolve_address find the cache and the pending
\* set as the state before the step has them
PlainCycles == {"start_monitoring", "timeout", "on_refresh", "delayed_refresh"}

\* The lookups under way for an endpoint: the threads started for it whose
\* lookup has not returned, and the results not yet written into the cache.
LookupsUnderWay(addr) ==
    LET For(t) == t.full_addr = addr /\ ~(t.pc = "release")
        Of(cb) == cb.fn = "update_resolution_cache" /\ cb.addr = addr
    IN  ThreadsWhere(threads, For) + ThreadsWhere(idle_sources, Of)

\* The threads a step starts for an IP
StartedFor(ip_part) ==
    LET For(t) == t.ip_part = ip_part
    IN  ThreadsWhere(threads', For) - ThreadsWhere(threads, For)

\* Every row of an endpoint shows the endpoint as it was listed
ShownRaw(rows, addr) ==
    \A k \in 1..Len(rows) :
       rows[k].conn.remote = addr => rows[k].remote_resolved = addr

\* C7 as stated: after a cycle with resolution enabled, every listed
\* endpoint that is not special and not cached is shown raw and has exactly
\* one lookup under way that a call for it has started.
C7_OneLookupPerEndpoint ==
    (last_step \in PlainCycles /\ resolve_hosts) =>
        \A i \in 1..Len(connections) :
           LET addr == connections[i].remote
           IN  (special_name(addr) = <<>> /\ addr \notin DOMAIN resolution_cache)
                 => ShownRaw(grid_rows, addr) /\ LookupsUnderWay(addr) = 1

\* C7 amended: in a cycle with resolution enabled, every listed endpoint
\* that is not special and not cached is shown raw and its IP is pending
\* afterwards; the calls of the cycle start one thread for the IP when the
\* IP was not pending before, and none when it was.
C7_LookupStartedUnlessPending ==
    [][(last_step' \in PlainCycles /\ resolve_hosts) =>
        \A i \in 1..Len(connections') :
           LET addr == connections'[i].remote
               ip_part == ip_part_of(addr)
           IN  (/\ special_name(addr) = <<>>
                /\ addr \notin DOMAIN resolution_cache
                /\ LastColon(addr) # 0)
                 => /\ ShownRaw(grid_rows', addr)
                    /\ ip_part \in resolution_pending'
                    /\ StartedFor(ip_part) =
                          IF ip_part \in resolution_pending THEN 0 ELSE 1]_vars

\* A later cycle has listed two endpoints of one IP, neither cached, while
\* the one thread started for the IP has not returned.
C7_Witness ==
    /\ last_step = "timeout"
    /\ resolve_hosts
    /\ resolution_cache = <<>>
    /\ Len(connections) = 2
    /\ ip_part_of(connections[1].remote) = ip_part_of(connections[2].remote)
    /\ ShownRaw(grid_rows, connections[1].remote)
    /\ ShownRaw(grid_rows, connections[2].remote)
    /\ BagCardinality(threads) = 1
    /\ ThreadsWhere(threads, InsideGate) = 0
    /\ idle_sources = EmptyBag

\* C8: in a cycle with resolution disabled, every endpoint that is not
\* special is shown raw, no thread is started, and the cache and the pending
\* set stay as they were.
C8_DisabledDoesNothing ==
    [][(last_step' \in PlainCycles /\ ~resolve_hosts) =>
        /\ threads' = threads
        /\ resolution_cache' = resolution_cache
        /\ resolution_pending' = resolution_pending
        /\ \A i \in 1..Len(connections') :
              special_name(connections'[i].remote) = <<>>
                => ShownRaw(grid_rows', connections'[i].remote)]_vars

\* With resolution disabled a cycle has shown raw an endpoint for which the
\* cache holds a host name.
C8_Witness ==
    /\ last_step = "timeout"
    /\ ~resolve_hosts
    /\ \E k \in 1..Len(grid_rows) :
          LET addr == grid_rows[k].conn.remote
          IN  /\ addr \in DOMAIN resolution_cache
              /\ resolution_cache[addr] # addr
              /\ grid_rows[k].remote_resolved = addr

\* C9: when on_resolve_toggled has switched resolution off, the cache and
\* the pending set are empty.
C9_SwitchOffClears ==
    (last_step = "on_resolve_toggled" /\ ~resolve_hosts) =>
        resolution_cache = <<>> /\ resolution_pending = {}

\* Resolution has just been switched off while the grid still shows a host
\* name out of the cache and the thread that looked it up has not ended.
C9_Witness ==
    /\ last_step = "on_resolve_toggled"
    /\ ~resolve_hosts
    /\ resolution_pending = {}
    /\ threads # EmptyBag
    /\ \E k \in 1..Len(grid_rows) :
          /\ special_name(grid_rows[k].conn.remote) = <<>>
          /\ grid_rows[k].remote_resolved # grid_rows[k].conn.remote

\* C10: when on_resolve_toggled has switched resolution back on, the cache
\* holds no entry.
C10_ReenableStartsCold ==
    (last_step = "on_resolve_toggled" /\ resolve_hosts) =>
        resolution_cache = <<>>

(***************************************************************************)
(* Properties of the cache and of the pending set.                         *)
(***************************************************************************)

\* Every step that runs update_connections
AllCycles == PlainCycles \cup {"update_resolution_cache"}

\* The update_resolution_cache callbacks a step takes off the idle queue
Delivered ==
    {cb \in BagToSet(idle_sources (-) idle_sources') :
        cb.fn = "update_resolution_cache"}

\* The threads a step starts for an endpoint
StartedForEndpoint(addr) ==
    LET For(t) == t.full_addr = addr
    IN  ThreadsWhere(threads', For) - ThreadsWhere(threads, For)

\* C11: the completion of a failed lookup stores the raw endpoint as the
\* endpoint's cache entry; while resolution stays enabled the entry stays as
\* it is, and a cycle run while the cache holds the raw endpoint for an
\* endpoint shows it raw and starts no thread for it.
C11_FailureIsCached ==
    [][/\ (resolve_hosts /\ resolve_hosts') =>
            \A addr \in DOMAIN resolution_cache :
               resolution_cache[addr] = addr =>
                  /\ addr \in DOMAIN resolution_cache'
                  /\ resolution_cache'[addr] = addr
       /\ last_step' = "update_resolution_cache" =>
            \A cb \in Delivered :
               cb.resolved = cb.addr =>
                  /\ cb.addr \in DOMAIN resolution_cache'
                  /\ resolution_cache'[cb.addr] = cb.addr
       /\ (last_step' \in AllCycles /\ resolve_hosts') =>
            \A addr \in DOMAIN resolution_cache' :
               resolution_cache'[addr] = addr =>
                  /\ ShownRaw(grid_rows', addr)
                  /\ StartedForEndpoint(addr) = 0]_vars

(***************************************************************************)
(* The windowed monitor when the user clicks the column headers while `ss` *)
(* lists a socket of a known process and a socket no process is known to   *)
(* own.                                                                    *)
(***************************************************************************)
SortSockets ==
    {Conn("100", "curl", MdnsAddr, AnyAddr),
     Conn(NA, NA, AnyAddr, StarAddr)}

NextSort ==
    \/ start_monitoring(ConnLists(SortSockets))
    \/ TimeoutFires(ConnLists(SortSockets))
    \/ HeaderClicked(ConnLists(SortSockets))

SpecSort == Init /\ [][NextSort]_vars

(***************************************************************************)
(* The windowed monitor when the user clicks the column headers and the    *)
(* toggle while `ss` lists a socket to a remote host and a socket to the   *)
(* local host, and no lookup returns; the terminal monitor runs beside it. *)
(***************************************************************************)
FilterSockets ==
    {Conn(NA, NA, AnyAddr, Endpoint(1, "443")),
     Conn(NA, NA, LoopbackAddr, LoopbackAddr)}

NextFilter ==
    \/ start_monitoring(ConnLists(FilterSockets))
    \/ TimeoutFires(ConnLists(FilterSockets))
    \/ HeaderClicked(ConnLists(FilterSockets))
    \/ ResolveToggled
    \/ DispatchRefresh(ConnLists(FilterSockets))
    \/ TerminalCycle(ConnLists(FilterSockets))

SpecFilter == Init /\ [][NextFilter]_vars

(***************************************************************************)
(* Properties of the rows a cycle shows.                                   *)
(***************************************************************************)

\* C12: no row of the grid and no row the terminal monitor prints has a
\* remote endpoint that resolves to LOCALHOST, whatever the sort column, the
\* sort direction and the resolution switch are.
C12_NoLocalhostRow ==
    /\ \A k \in 1..Len(grid_rows) :
          /\ special_name(grid_rows[k].conn.remote) # LOCALHOST
          /\ grid_rows[k].remote_resolved # LOCALHOST
    /\ \A k \in 1..Len(term_rows) :
          /\ special_name(term_rows[k].conn.remote) # LOCALHOST
          /\ term_rows[k].remote_resolved # LOCALHOST

\* With resolution off and the grid sorted downwards on a column other than
\* the first, a cycle has listed a socket to the local host next to another
\* one and shows only the other; the terminal monitor has printed a row.
C12_Witness ==
    /\ ~resolve_hosts
    /\ sort_column # 0
    /\ ~sort_ascending
    /\ Len(connections) = 2
    /\ \E i \in 1..2 : special_name(connections[i].remote) = LOCALHOST
    /\ Len(grid_rows) = 1
    /\ Len(term_rows) = 1

(***************************************************************************)
(* Properties of sort_connections and of the header clicks.                *)
(***************************************************************************)

\* The connections the last cycle handed to sort_connections: the listed
\* ones without those whose remote endpoint is a loopback endpoint.
SortInput ==
    SelectSeq(connections,
              LAMBDA conn : special_name(conn.remote) # LOCALHOST)

\* The connections in the order the last cycle displayed them.
SortOutput == [i \in 1..Len(grid_rows) |-> grid_rows[i].conn]

\* The rows k and l of the grid have the same key in the sort column.
SameKey(k, l) ==
    get_sort_key(sort_column, grid_rows[k]) =
        get_sort_key(sort_column, grid_rows[l])

Orderings(n) ==
    {p \in [1..n -> 1..n] : \A i, j \in 1..n : i # j => p[i] # p[j]}

\* C13: the displayed order is a permutation of the connections handed to
\* sort_connections that keeps rows with equal sort keys in their input
\* order, in ascending and in descending order alike.
C13_SortIsStable ==
    /\ Len(SortOutput) = Len(SortInput)
    /\ \E p \in Orderings(Len(SortInput)) :
          /\ \A k \in 1..Len(SortOutput) : SortOutput[k] = SortInput[p[k]]
          /\ \A k, l \in 1..Len(SortOutput) :
                (k < l /\ SameKey(k, l)) => p[k] < p[l]

\* Two different connections with the same TX rate were sorted in
\* descending order by a header click.
C13_Witness ==
    /\ last_step = "on_header_clicked"
    /\ sort_column = 5
    /\ ~sort_ascending
    /\ Len(grid_rows) = 2
    /\ SortOutput[1] # SortOutput[2]
    /\ SameKey(1, 2)

\* C14: in every state a sequence of header clicks leads to, a click on the
\* active sort column flips sort_ascending and leaves sort_column alone, and
\* a click on any other column makes it the sort column and sets
\* sort_ascending to TRUE.
C14_HeaderClickSetsSort ==
    LET Clicked(after, column_index) ==
            IF column_index = sort_column
            THEN /\ after.sort_column = sort_column
                 /\ after.sort_ascending = ~sort_ascending
            ELSE /\ after.sort_column = column_index
                 /\ after.sort_ascending = TRUE
    IN  timeouts >= 1 =>
           \A column_index \in 0..(NumColumns - 1) :
              \A listed \in ConnLists(SortSockets) :
                 \A reads \in IoReads(listed) :
                    Clicked(on_header_clicked(Self, column_index, listed,
                                              reads),
                            column_index)

\* A click on a new column followed by a click on the same column: the
\* column is sorted in descending order.
C14_Witness ==
    /\ last_step = "on_header_clicked"
    /\ sort_column = 3
    /\ ~sort_ascending

(***************************************************************************)
(* Properties of a cycle whose listing is empty.                           *)
(***************************************************************************)

\* Every handler that ends in update_connections
Handlers == AllCycles \cup {"on_header_clicked"}

\* C15: a cycle (a step of the window that ends a handler running
\* update_connections) for which get_connections returns the empty list
\* shows no row, whatever the cycle before it showed, and schedules the next
\* timeout: the timer's own cycle replaces the timeout that fired, any other
\* handler adds one.  A turn of the terminal loop with an empty listing
\* prints no row.
C15_EmptyListingShowsNothing ==
    [][/\ (/\ last_step' \in Handlers
           /\ gtk_vars' # gtk_vars
           /\ connections' = <<>>) =>
             /\ grid_rows' = <<>>
             /\ timeouts' >= 1
             /\ timeouts' = IF last_step' = "timeout"
                            THEN timeouts ELSE timeouts + 1
       /\ term_rows_of(term_prev_io', <<>>, <<>>).rows = <<>>]_vars

\* The timer's cycle got an empty listing after a cycle that had shown a
\* row and started a lookup for it, and the terminal loop has printed a row.
C15_Witness ==
    /\ last_step = "timeout"
    /\ connections = <<>>
    /\ grid_rows = <<>>
    /\ resolution_pending # {}
    /\ term_rows # <<>>

(***************************************************************************)
(* Properties of resolve_address on the special endpoints.                 *)
(***************************************************************************)

\* The special endpoints, each with the name the code gives it
SpecialEndpoints ==
    {<<AnyAddr, <<"ANY">>>>,
     <<StarAddr, <<"ANY">>>>,
     <<(<<"[", ":", ":", "]", ":", "*">>), <<"ANY">>>>,
     <<LoopbackAddr, <<"LOCALHOST">>>>,
     <<(<<"[", ":", ":", "1", "]", ":", "443">>), <<"LOCALHOST">>>>,
     <<MdnsAddr, <<"MDNS">>>>}

\* The window object with the toggle set to `active` and, if `cached`, a
\* cache entry and a pending entry for the endpoint itself.
WindowWith(active, cached, addr) ==
    [Self EXCEPT
        !.resolve_hosts = active,
        !.resolution_cache = IF cached THEN (addr :> <<"ptr">>) @@ @ ELSE @,
        !.resolution_pending = IF cached THEN @ \cup {ip_part_of(addr)} ELSE @]

\* C16: in every reachable state of the window, with resolution enabled or
\* disabled and with or without a cache entry for the endpoint, both
\* resolve_address functions return ANY for the three wildcard endpoints,
\* LOCALHOST for the loopback endpoints and MDNS for the endpoints on
\* 224.0.0.251, and the windowed one leaves the cache, the pending set and
\* the threads as they were.
C16_SpecialEndpoints ==
    \A e \in SpecialEndpoints :
       /\ term_resolve_address(e[1]) = e[2]
       /\ \A active, cached \in BOOLEAN :
             resolve_address(WindowWith(active, cached, e[1]), e[1]) =
                 [ret |-> e[2], self |-> WindowWith(active, cached, e[1])]

\* A cycle has shown the wildcard local endpoint of a connection as ANY,
\* with resolution enabled, while the cache held the host name of its remote
\* endpoint and a lookup was pending.
C16_Witness ==
    /\ resolve_hosts
    /\ resolution_cache # <<>>
    /\ resolution_pending # {}
    /\ \E k \in 1..Len(grid_rows) :
          /\ grid_rows[k].conn.local = AnyAddr
          /\ grid_rows[k].local_resolved = <<"ANY">>
          /\ grid_rows[k].remote_resolved # grid_rows[k].conn.remote

(***************************************************************************)
(* Properties of the pending set and of the cache across completions.      *)
(***************************************************************************)

\* C17: when the main loop runs update_resolution_cache for an endpoint, the
\* endpoint's IP component is not in the pending set afterwards, unless a
\* resolve_address call of the cycle that update_resolution_cache ends with
\* has started a new lookup for that IP.
C17_CompletionClearsPending ==
    [][\A cb \in Delivered :
          ip_part_of(cb.addr) \in resolution_pending' =>
             StartedFor(ip_part_of(cb.addr)) >= 1]_vars

\* Both endpoints of the shared IP are remote endpoints of the last listing
BothListed ==
    \A port \in {"443", "80"} :
       \E i \in 1..Len(connections) :
          connections[i].remote = Endpoint(1, port)

BothCached ==
    \A port \in {"443", "80"} : Endpoint(1, port) \in DOMAIN resolution_cache

\* No completion of a lookup waits in the idle queue
NoneUndelivered ==
    \A cb \in BagToSet(idle_sources) : cb.fn # "update_resolution_cache"

\* C18: with resolution enabled throughout, every lookup returning and the
\* main loop dispatching every completion, if the two endpoints 10.0.0.1:443
\* and 10.0.0.1:80 are listed again and again, then each of them eventually
\* has a cache entry.
C18_BothEndpointsCached ==
    ([]<>BothListed /\ []<>NoneUndelivered /\ [](timeouts < MaxTimeouts))
        => <>BothCached

\* C19: a cache entry, once written, keeps its value and stays in the cache
\* until on_resolve_toggled switches resolution off and clears the cache.
C19_CacheEntriesImmutable ==
    [][\A addr \in DOMAIN resolution_cache :
          \/ /\ addr \in DOMAIN resolution_cache'
             /\ resolution_cache'[addr] = resolution_cache[addr]
          \/ /\ last_step' = "on_resolve_toggled"
             /\ ~resolve_hosts'
             /\ resolution_cache' = <<>>]_vars

\* C20: at most one lookup per IP component is under way at any moment: a
\* thread that has been started for the IP and has not yet handed its
\* result to the main loop, whether it waits for the semaphore or is inside
\* gethostbyaddr.
C20_OneLookupPerIp ==
    \A h \in 1..NumHosts :
       LET Of(t) == t.ip_part = <<HostTable[h]>> /\ t.pc # "release"
       IN  ThreadsWhere(threads, Of) <= 1

(***************************************************************************)
(* Properties of the threads across the whole of async_resolve_host.       *)
(***************************************************************************)

\* The thread started for host h waits for a permit
WaitsAtGate(h) ==
    \E t \in BagToSet(threads) :
       t.ip_part = <<HostTable[h]>> /\ t.pc = "acquire"

\* C21: the permits left and the threads between acquire and release
\* always add up to five, whether the lookups return a name or raise, and a
\* thread that waits for a permit is eventually let in when the threads run
\* and the lookups return.
C21_PermitsAreReturned ==
    /\ [](resolution_semaphore + ThreadsWhere(threads, InsideGate)
             = SemaphoreInit)
    /\ \A h \in 1..BurstHosts : WaitsAtGate(h) ~> ~WaitsAtGate(h)

\* A thread waits with no permit left while one lookup has returned a name
\* and another has raised, their threads not having released yet.
C21_Witness ==
    /\ resolution_semaphore = 0
    /\ ThreadsWhere(threads, AtSemaphore) >= 1
    /\ \E named, raised \in BagToSet(idle_sources) :
          /\ named.fn = "update_resolution_cache"
          /\ raised.fn = "update_resolution_cache"
          /\ named.resolved # named.addr
          /\ raised.resolved = raised.addr
    /\ \E t, u \in BagToSet(threads) :
          /\ t.pc = "release"
          /\ u.pc = "release"
          /\ t # u

(***************************************************************************)
(* Properties of what one update_connections run reads from the cache.     *)
(***************************************************************************)

\* The steps the main loop runs
MainLoopSteps == Handlers \cup {"on_resolve_toggled"}

\* What resolve_address returns for an endpoint in the current state
Resolved(addr) == resolve_address(Self, addr).ret

\* The string a call may return: the special name, the raw endpoint, or the
\* cache entry of the endpoint
RawOrCached(addr, shown) ==
    \/ shown = special_name(addr)
    \/ shown = addr
    \/ /\ resolve_hosts
       /\ addr \in DOMAIN resolution_cache
       /\ shown = resolution_cache[addr]

\* The rows of the grid are in the order of the keys their cells give
RowsInKeyOrder ==
    \A k, l \in 1..Len(grid_rows) :
       k < l => ~Precedes(sort_column, sort_ascending,
                          grid_rows[l], grid_rows[k])

\* Every row shows for its endpoints the string a resolve_address call
\* returns in the current state, the raw endpoint or the cache entry
RowsAgree ==
    \A k \in 1..Len(grid_rows) :
       /\ grid_rows[k].remote_resolved = Resolved(grid_rows[k].conn.remote)
       /\ grid_rows[k].local_resolved = Resolved(grid_rows[k].conn.local)
       /\ RawOrCached(grid_rows[k].conn.remote, grid_rows[k].remote_resolved)
       /\ grid_rows[k].remote_resolved # LOCALHOST

\* Only steps of the main loop change the cache or the pending set, a
\* thread step changes neither; and when a handler has run
\* update_connections, every row shows for its endpoints the string that a
\* resolve_address call returns at the end of the run, and the rows are in
\* the order of the keys made from those strings: the calls of the filter,
\* of the sort key and of the row agree.
CallsOfOneRunAgree ==
    /\ (\/ resolution_cache' # resolution_cache
        \/ resolution_pending' # resolution_pending)
          => last_step' \in MainLoopSteps
    /\ last_step' \in Handlers => (RowsAgree /\ RowsInKeyOrder)'

\* A cache entry other than the raw endpoint that a row of the grid shows is
\* final: it is still the endpoint's entry after every step that leaves
\* resolution enabled.
ShownEntryIsFinal ==
    (resolve_hosts /\ resolve_hosts') =>
       \A k \in 1..Len(grid_rows) :
          (/\ special_name(grid_rows[k].conn.remote) = <<>>
           /\ grid_rows[k].remote_resolved # grid_rows[k].conn.remote
           /\ grid_rows[k].conn.remote \in DOMAIN resolution_cache
           /\ grid_rows[k].remote_resolved
                 = resolution_cache[grid_rows[k].conn.remote])
          => /\ grid_rows[k].conn.remote \in DOMAIN resolution_cache'
             /\ resolution_cache'[grid_rows[k].conn.remote]
                   = grid_rows[k].remote_resolved

RunsAgree == [][CallsOfOneRunAgree]_vars

\* C22: threads never write the cache or the pending set, every write is a
\* step of the main loop; the resolve_address calls of one update_connections
\* run return the same string for an endpoint, and that string is the raw
\* endpoint or the final cache entry of the endpoint.
C22_RunSeesRawOrFinal ==
    [][CallsOfOneRunAgree /\ ShownEntryIsFinal]_vars

\* A cycle sorted by the Destination column has shown one endpoint by its
\* cached host name and another one raw, its lookup still under way.
RunsAgreeCase ==
    /\ last_step \in Handlers
    /\ sort_column = 3
    /\ Len(grid_rows) = 2
    /\ \E k, l \in 1..2 :
          /\ grid_rows[k].remote_resolved # grid_rows[k].conn.remote
          /\ grid_rows[l].remote_resolved = grid_rows[l].conn.remote
          /\ grid_rows[l].conn.remote \notin DOMAIN resolution_cache
    /\ threads # EmptyBag

(***************************************************************************)
(* Properties of the timer and of the sampling of the counters.            *)
(***************************************************************************)

\* C23: at most one scheduled update_connections timeout is outstanding at
\* any moment, whatever handlers have run.
C23_SingleTimerChain == timeouts <= 1

\* C24: in both monitors the rows of one cycle that belong to the same
\* process id carry the same pair of rates.
C24_OneSamplePerPid ==
    /\ \A k, l \in 1..Len(grid_rows) :
          (grid_rows[k].conn.pid # NA
              /\ grid_rows[k].conn.pid = grid_rows[l].conn.pid) =>
             /\ grid_rows[k].conn.rx_rate = grid_rows[l].conn.rx_rate
             /\ grid_rows[k].conn.tx_rate = grid_rows[l].conn.tx_rate
    /\ \A k, l \in 1..Len(term_rows) :
          (term_rows[k].conn.pid # NA
              /\ term_rows[k].conn.pid = term_rows[l].conn.pid) =>
             /\ term_rows[k].rx_rate = term_rows[l].rx_rate
             /\ term_rows[k].tx_rate = term_rows[l].tx_rate

\* C25: the cycle that delayed_refresh runs after a toggle in either
\* direction, and the cycle that on_refresh runs, attach the rates (0, 0) to
\* every connection and show them in every row, whatever the counters read
\* and whatever the retained map held.
C25_RefreshStartsFromZero ==
    last_step \in {"delayed_refresh", "on_refresh"} =>
       /\ \A i \in 1..Len(connections) :
             connections[i].rx_rate = 0 /\ connections[i].tx_rate = 0
       /\ \A k \in 1..Len(grid_rows) :
             grid_rows[k].conn.rx_rate = 0 /\ grid_rows[k].conn.tx_rate = 0

\* delayed_refresh has run after a toggle that switched resolution off, when
\* earlier cycles had sampled a process, and has read advanced counters for
\* it.
C25_Witness ==
    /\ last_step = "delayed_refresh"
    /\ ~resolve_hosts
    /\ timeouts >= 2
    /\ \E k \in 1..Len(grid_rows) : grid_rows[k].conn.pid # NA
    /\ \E i \in 1..Len(connections) :
          /\ connections[i].pid # NA
          /\ io_reads[i] = [rx |-> 1, tx |-> 1]

\* What get_process_io can return when the counters of the process stand at
\* `true`: the counters, or (0, 0) when the read fails
ReadsOf(true) == {true, [rx |-> 0, tx |-> 0]}

\* C26: when a process owns a connection in two consecutive cycles of the
\* windowed monitor, then for all counters the process can truly have had at
\* the two reads, the later ones not below the earlier ones, each read
\* returning the counters or (0, 0) for a failed read, the rates the second
\* cycle shows in a row are not above the true increase of the counters.
C26_RateWithinTrueIncrease ==
    [][last_step' \in TimerCycles =>
        \A i \in 1..Len(connections') :
           (/\ connections'[i].pid # NA
            /\ connections'[i].pid \in DOMAIN prev_io
            /\ \E k \in 1..Len(grid_rows') :
                  grid_rows'[k].conn = connections'[i]) =>
              \A before, after \in get_process_io :
                 (/\ before.rx <= after.rx
                  /\ before.tx <= after.tx
                  /\ prev_io[connections'[i].pid] \in ReadsOf(before)
                  /\ io_reads'[i] \in ReadsOf(after)) =>
                    /\ connections'[i].rx_rate <= after.rx - before.rx
                    /\ connections'[i].tx_rate <= after.tx - before.tx]_vars

====
